---- MODULE Spec2Model ----
(***************************************************************************)
(* The 2D physics demos of the repository: balls integrated with the       *)
(* symplectic Euler method, bounced off the walls of a rectangular world,  *)
(* collided pairwise, and (in ch-03-practice/index.js) launched by a       *)
(* charge-and-release cue.                                                 *)
(*                                                                         *)
(* Numbers.  The source computes in IEEE-754 doubles: every arithmetic     *)
(* operation rounds its exact result to the nearest number with a 53-bit   *)
(* significand, halves to even.  The model keeps exactly that arithmetic   *)
(* with a significand of Precision bits: a number is [m, e], standing for  *)
(* m * 2^e with 2^(Precision-1) <= |m| < 2^Precision (or m = 0), and + - * *)
(* / sqrt are correctly rounded.  The exponent is unbounded: overflow to   *)
(* Infinity, subnormals and NaN are not modelled.  Integers the source     *)
(* keeps exact (loop indices, millisecond timestamps) stay integers.       *)
(***************************************************************************)
EXTENDS Integers, Sequences, FiniteSets, TLC

VARIABLES
    demo,       \* which program runs: "ch03", "index3", "part000", "practice"
    balls,      \* Scene.balls / Renderer.balls / <<the one ball>>
    worldSize,  \* Scene.worldSize, World.size, Scene.simWidth / simHeight
    canvas,     \* Renderer.canvas: its width and height in pixels
    gravity,    \* Core.gravity
    timeStep,   \* Core.timeStep, or the dt handed to the integrator
    pc,         \* position of the running handler ("idle" between handlers)
    i,          \* outer loop index of simulate / update
    j,          \* inner loop index of simulate / update
    ticks,      \* number of calls of simulate / update started so far
    done,       \* the steps the running call has executed, in order
    cue,        \* Game.cue
    now,        \* Date.now()
    op,         \* the operation that produced the current state
    prev,       \* the state that operation started from
    isRunning,  \* Core.isRunning
    pending,    \* update callbacks requestAnimationFrame holds for the next frame
    frame       \* the display frame: its number, its callbacks still to run,
                \* and the calls of simulate made during it

vars == <<demo, balls, worldSize, canvas, gravity, timeStep, pc, i, j, ticks, done,
          cue, now, op, prev, isRunning, pending, frame>>

\* The animation loop, which the handlers of a running frame leave alone.
loopVars == <<isRunning, pending, frame>>

\* Before the first display frame: update() has run once at load and has
\* requested the first callback.
FirstFrame == [n |-> 0, left |-> 0, simulated |-> 0]
LoopStarted == isRunning = TRUE /\ pending = 1 /\ frame = FirstFrame

-----------------------------------------------------------------------------
(* Numbers *)

\* Bits of the significand.
Precision == 10

Abs(n) == IF n < 0 THEN -n ELSE n

Sign(n) == IF n < 0 THEN -1 ELSE 1

RECURSIVE BitLen(_)
\* The number of bits of the integer n >= 0.
BitLen(n) == IF n = 0 THEN 0 ELSE 1 + BitLen(n \div 2)

\* n / 2^k rounded to the nearest integer, halves to even (n >= 0, k >= 1).
RoundShift(n, k) ==
    LET q == n \div (2 ^ k)
        r == n % (2 ^ k)
        half == 2 ^ (k - 1)
    IN  IF r > half \/ (r = half /\ q % 2 = 1) THEN q + 1 ELSE q

Zero == [m |-> 0, e |-> 0]

\* The number nearest to the exact value n * 2^e.
Norm(n, e) ==
    IF n = 0 THEN Zero
    ELSE LET a == Abs(n)
             len == BitLen(a)
         IN  IF len <= Precision
             THEN [m |-> Sign(n) * a * 2 ^ (Precision - len),
                   e |-> e - (Precision - len)]
             ELSE LET k == len - Precision
                      q == RoundShift(a, k)
                  IN  IF q = 2 ^ Precision
                      THEN [m |-> Sign(n) * 2 ^ (Precision - 1), e |-> e + k + 1]
                      ELSE [m |-> Sign(n) * q, e |-> e + k]

\* The integer literal n and the decimal literal n / d.
Num(n) == Norm(n, 0)

Neg(a) == [m |-> -a.m, e |-> a.e]

\* a + b
Add(a, b) ==
    IF a.m = 0 THEN b
    ELSE IF b.m = 0 THEN a
    ELSE LET hi == IF a.e >= b.e THEN a ELSE b
             lo == IF a.e >= b.e THEN b ELSE a
             diff == hi.e - lo.e
         IN  IF diff > Precision + 1 THEN hi
             ELSE Norm(hi.m * 2 ^ diff + lo.m, lo.e)

\* a - b
Sub(a, b) == Add(a, Neg(b))

\* a * b
Mul(a, b) == Norm(a.m * b.m, a.e + b.e)

\* a / b (b # 0): the quotient to Precision + 2 bits and a sticky bit, rounded.
Div(a, b) ==
    IF a.m = 0 THEN Zero
    ELSE LET n == Abs(a.m) * 2 ^ (Precision + 2)
             q == n \div Abs(b.m)
             sticky == IF n % Abs(b.m) = 0 THEN 0 ELSE 1
         IN  Norm(Sign(a.m) * Sign(b.m) * (2 * q + sticky),
                  a.e - b.e - (Precision + 2) - 1)

Dec(n, d) == Div(Num(n), Num(d))

\* a < b, a <= b, a > b, a >= b
Lt(a, b) == Sub(a, b).m < 0
Le(a, b) == Sub(a, b).m <= 0
Gt(a, b) == Lt(b, a)
Ge(a, b) == Le(b, a)

FMin(a, b) == IF Lt(b, a) THEN b ELSE a

RECURSIVE SqrtSearch(_, _, _)
\* The largest s in lo..hi with s * s <= n.
SqrtSearch(n, lo, hi) ==
    IF lo >= hi THEN lo
    ELSE LET mid == (lo + hi + 1) \div 2
         IN  IF mid * mid <= n THEN SqrtSearch(n, mid, hi)
                               ELSE SqrtSearch(n, lo, mid - 1)

\* Math.sqrt(a), a >= 0: the root to Precision + 1 bits and a sticky bit, rounded.
Sqrt(a) ==
    IF a.m = 0 THEN Zero
    ELSE LET s == IF (a.e - (Precision + 2)) % 2 = 0 THEN Precision + 2
                                                      ELSE Precision + 3
             n == a.m * 2 ^ s
             root == SqrtSearch(n, 0, 2 ^ (Precision + 2))
             sticky == IF root * root = n THEN 0 ELSE 1
         IN  Norm(2 * root + sticky, (a.e - s) \div 2 - 1)

\* Math.PI
Pi == Dec(355, 113)

-----------------------------------------------------------------------------
(* Vector2 (ch-03/index.js), Vector (ch-03-practice) *)

Vec(x, y) == [x |-> x, y |-> y]

\* add(v, s): this += v * s
VAdd(a, v, s) == [x |-> Add(a.x, Mul(v.x, s)), y |-> Add(a.y, Mul(v.y, s))]

\* subtractVectors(a, b) / subtract(v1, v2) / Vector.subtract(a, b): a - b
VSubtractVectors(a, b) == [x |-> Sub(a.x, b.x), y |-> Sub(a.y, b.y)]

\* scale(s): this *= s
VScale(v, s) == [x |-> Mul(v.x, s), y |-> Mul(v.y, s)]

\* length()
VLength(v) == Sqrt(Add(Mul(v.x, v.x), Mul(v.y, v.y)))

\* dot(v)
VDot(a, b) == Add(Mul(a.x, b.x), Mul(a.y, b.y))

\* normalize(): no-op on the zero vector
VNormalize(v) ==
    LET len == VLength(v)
    IN  IF len.m > 0 THEN VScale(v, Div(Num(1), len)) ELSE v

-----------------------------------------------------------------------------
(* Ball and the integrators *)

\* Math.PI * radius * radius (Scene.setupBalls, Ball's constructor, Game.initBall)
DiscMass(radius) == Mul(Mul(Pi, radius), radius)

\* new Ball(radius, mass, pos, vel) of ch-03/index.js and ch-03-practice/index.js
Ball(radius, mass, pos, vel) ==
    [radius |-> radius, mass |-> mass, pos |-> pos, vel |-> vel]

\* new Ball({pos, vel, radius, gravity}) of ch-03-practice/index3.js
Ball3(pos, vel, radius, g) ==
    [radius |-> radius, mass |-> DiscMass(radius), pos |-> pos, vel |-> vel,
     gravity |-> g]

\* Ball.simulate(dt, gravity) of ch-03/index.js
BallSimulate(ball, dt, g) ==
    LET vel == VAdd(ball.vel, g, dt)
    IN  [ball EXCEPT !.vel = vel, !.pos = VAdd(ball.pos, vel, dt)]

\* Ball.update(dt) of ch-03-practice/index3.js
BallUpdate(ball, dt) ==
    LET vel == VAdd(ball.vel, ball.gravity, dt)
    IN  [ball EXCEPT !.vel = vel, !.pos = VAdd(ball.pos, vel, dt)]

\* Ball.applyGravity(gx, gy, timeStep) of part_000
ApplyGravity(ball, g, dt) ==
    [ball EXCEPT !.vel = [x |-> Add(ball.vel.x, Mul(g.x, dt)),
                          y |-> Add(ball.vel.y, Mul(g.y, dt))]]

\* Ball.move(timeStep) of part_000
Move(ball, dt) ==
    [ball EXCEPT !.pos = [x |-> Add(ball.pos.x, Mul(ball.vel.x, dt)),
                          y |-> Add(ball.pos.y, Mul(ball.vel.y, dt))]]

\* PhysicsObject.simulate(dt) of ch-03-practice/index.js: no gravity
PhysicsObjectSimulate(ball, dt) == [ball EXCEPT !.pos = VAdd(ball.pos, ball.vel, dt)]

-----------------------------------------------------------------------------
(* Boundary resolvers *)

\* Core.handleWallsCollision(ball, worldSize) of ch-03/index.js
HandleWallsCollision(ball, size) ==
    LET b1 == IF Lt(ball.pos.x, ball.radius)
              THEN [ball EXCEPT !.pos.x = ball.radius, !.vel.x = Neg(ball.vel.x)]
              ELSE ball
        b2 == IF Gt(b1.pos.x, Sub(size.x, b1.radius))
              THEN [b1 EXCEPT !.pos.x = Sub(size.x, b1.radius), !.vel.x = Neg(b1.vel.x)]
              ELSE b1
        b3 == IF Lt(b2.pos.y, b2.radius)
              THEN [b2 EXCEPT !.pos.y = b2.radius, !.vel.y = Neg(b2.vel.y)]
              ELSE b2
    IN  IF Gt(b3.pos.y, Sub(size.y, b3.radius))
        THEN [b3 EXCEPT !.pos.y = Sub(size.y, b3.radius), !.vel.y = Neg(b3.vel.y)]
        ELSE b3

\* A resolver for index.js that tests the edge and insets by the radius.
WorldHandleWallCollisionInset(ball, size) == HandleWallsCollision(ball, size)

\* World.handleWallCollision(ball) of ch-03-practice/index.js
WorldHandleWallCollision(ball, size) ==
    LET b1 == IF Gt(ball.pos.x, size.x)
              THEN [ball EXCEPT !.pos.x = size.x, !.vel.x = Neg(ball.vel.x)]
              ELSE ball
        b2 == IF Lt(b1.pos.x, Zero)
              THEN [b1 EXCEPT !.pos.x = Zero, !.vel.x = Neg(b1.vel.x)]
              ELSE b1
        b3 == IF Lt(b2.pos.y, Zero)
              THEN [b2 EXCEPT !.pos.y = Zero, !.vel.y = Neg(b2.vel.y)]
              ELSE b2
    IN  IF Gt(b3.pos.y, size.y)
        THEN [b3 EXCEPT !.pos.y = size.y, !.vel.y = Neg(b3.vel.y)]
        ELSE b3

\* Renderer.scale of ch-03-practice/index3.js
scale == 20

\* The damping of Renderer.handleWallCollision: -vel * 0.9
WallDamping == Dec(9, 10)

\* Renderer.handleWallCollision(ball) of ch-03-practice/index3.js
RendererHandleWallCollision(ball, cv) ==
    LET b1 == IF Gt(Add(ball.pos.y, ball.radius), Div(Num(cv.height), Num(scale)))
              THEN [ball EXCEPT !.pos.y = Sub(Div(Num(cv.height), Num(scale)), ball.radius),
                                !.vel.y = Mul(Neg(ball.vel.y), WallDamping)]
              ELSE ball
        b2 == IF Lt(Sub(b1.pos.y, b1.radius), Zero)
              THEN [b1 EXCEPT !.pos.y = b1.radius,
                              !.vel.y = Mul(Neg(b1.vel.y), WallDamping)]
              ELSE b1
        b3 == IF Gt(Add(b2.pos.x, b2.radius), Div(Num(cv.width), Num(scale)))
              THEN [b2 EXCEPT !.pos.x = Sub(Div(Num(cv.width), Num(scale)), b2.radius),
                              !.vel.x = Mul(Neg(b2.vel.x), WallDamping)]
              ELSE b2
    IN  IF Lt(Sub(b3.pos.x, b3.radius), Zero)
        THEN [b3 EXCEPT !.pos.x = b3.radius,
                        !.vel.x = Mul(Neg(b3.vel.x), WallDamping)]
        ELSE b3

\* Core.handleCollision() of part_000: left wall, right wall, ground; no ceiling
CoreHandleCollision(ball, size) ==
    LET b1 == IF Lt(ball.pos.x, Zero)
              THEN [ball EXCEPT !.pos.x = Zero, !.vel.x = Neg(ball.vel.x)]
              ELSE ball
        b2 == IF Gt(b1.pos.x, size.x)
              THEN [b1 EXCEPT !.pos.x = size.x, !.vel.x = Neg(b1.vel.x)]
              ELSE b1
    IN  IF Lt(b2.pos.y, Zero)
        THEN [b2 EXCEPT !.pos.y = Zero, !.vel.y = Neg(b2.vel.y)]
        ELSE b2

\* Scene.init: simWidth, simHeight of a canvas whose shorter side shows minScale
SimSize(cv, minScale) ==
    LET shorter == IF cv.width < cv.height THEN cv.width ELSE cv.height
        cScale == Div(Num(shorter), Num(minScale))
    IN  Vec(Div(Num(cv.width), cScale), Div(Num(cv.height), cScale))

\* The world of a demo: Scene.worldSize, World.size, or the canvas in units
\* of Renderer.scale (index3.js compares against canvas.width / scale).
World(dm, size, cv) ==
    IF dm = "index3"
    THEN Vec(Div(Num(cv.width), Num(scale)), Div(Num(cv.height), Num(scale)))
    ELSE size

-----------------------------------------------------------------------------
(* Pair collision resolver *)

\* The guard that lets bodies in exact contact go: d >= radius1 + radius2.
NoCollisionTouching(d, r1, r2) == d.m = 0 \/ Ge(d, Add(r1, r2))

\* if (d === 0 || d > ball1.radius + ball2.radius) return;
NoCollision(d, r1, r2) == d.m = 0 \/ Gt(d, Add(r1, r2))

\* A correction that moves each body by a quarter of the overlap.
CorrectionQuarter(d, r1, r2) == Div(Sub(Add(r1, r2), d), Num(4))

\* const corr = (ball1.radius + ball2.radius - d) / 2.0;
Correction(d, r1, r2) == Div(Sub(Add(r1, r2), d), Num(2))

\* const newV1 = (m1 * v1 + m2 * v2 - m2 * (v1 - v2) * restitution) / (m1 + m2);
NewV1(m1, m2, v1, v2, restitution) ==
    Div(Sub(Add(Mul(m1, v1), Mul(m2, v2)), Mul(Mul(m2, Sub(v1, v2)), restitution)),
        Add(m1, m2))

\* The second speed with the other body's mass in the restitution term.
NewV2OtherMass(m1, m2, v1, v2, restitution) ==
    Div(Sub(Add(Mul(m1, v1), Mul(m2, v2)), Mul(Mul(m2, Sub(v2, v1)), restitution)),
        Add(m1, m2))

\* const newV2 = (m1 * v1 + m2 * v2 - m1 * (v2 - v1) * restitution) / (m1 + m2);
NewV2(m1, m2, v1, v2, restitution) ==
    Div(Sub(Add(Mul(m1, v1), Mul(m2, v2)), Mul(Mul(m1, Sub(v2, v1)), restitution)),
        Add(m1, m2))

\* Core.handleBallsCollision (ch-03/index.js) and Renderer.handleBallsCollision
\* (ch-03-practice/index3.js), which are the same code: the pair after the call.
HandleBallsCollision(ball1, ball2, restitution) ==
    LET dir0 == VSubtractVectors(ball2.pos, ball1.pos)
        d == VLength(dir0)
    IN  IF NoCollision(d, ball1.radius, ball2.radius)
        THEN <<ball1, ball2>>
        ELSE LET dir == VScale(dir0, Div(Num(1), d))
                 corr == Correction(d, ball1.radius, ball2.radius)
                 pos1 == VAdd(ball1.pos, dir, Neg(corr))
                 pos2 == VAdd(ball2.pos, dir, corr)
                 v1 == VDot(ball1.vel, dir)
                 v2 == VDot(ball2.vel, dir)
                 m1 == ball1.mass
                 m2 == ball2.mass
                 newV1 == NewV1(m1, m2, v1, v2, restitution)
                 newV2 == NewV2(m1, m2, v1, v2, restitution)
             IN  << [ball1 EXCEPT !.pos = pos1, !.vel = VAdd(ball1.vel, dir, Sub(newV1, v1))],
                    [ball2 EXCEPT !.pos = pos2, !.vel = VAdd(ball2.vel, dir, Sub(newV2, v2))] >>

-----------------------------------------------------------------------------
(* One tick over the body set: Core.simulate (ch-03/index.js) and          *)
(* Renderer.update (ch-03-practice/index3.js), one action per loop step     *)

\* Bodies in the scene (Scene.setupBalls creates 20; Renderer.addBall adds any number).
NumBalls == 3

\* Calls of simulate / update that are followed.
MaxTicks == 2

\* Scene.restitution (1.0) and the restitution Renderer.update passes (0.9)
Restitution(dm) == IF dm = "ch03" THEN Num(1) ELSE Dec(9, 10)

\* 1.0 / 60.0: Core.timeStep, and the dt Renderer.update and Game.update pass
FrameStep == Div(Num(1), Num(60))

Ev(kind, a, b) == [kind |-> kind, a |-> a, b |-> b]

\* The inner loop condition that misses the last body: j < length - 1.
AfterIntegrateShort(a, n) == IF a + 1 < n THEN "pair" ELSE "wall"

\* After ball1 is integrated: the inner loop starts at j = i + 1, or is empty.
AfterIntegrate(a, n) == IF a + 1 <= n THEN "pair" ELSE "wall"

\* After pair (i, j): the inner loop goes on with j + 1, or ends.
AfterPair(b, n) == IF b + 1 <= n THEN "pair" ELSE "wall"

\* After ball1's walls: the outer loop goes on with i + 1, or the call returns.
AfterWall(a, n) == IF a + 1 <= n THEN "integrate" ELSE "idle"

NoCue == [isCharging |-> FALSE]

\* simulate() / update() is called: for (let i = 0; i < balls.length; i++)
SimStart ==
    /\ pc = "idle"
    /\ ticks < MaxTicks
    /\ ticks' = ticks + 1
    /\ done' = << >>
    /\ i' = 1
    /\ j' = 1
    /\ pc' = IF Len(balls) >= 1 THEN "integrate" ELSE "idle"
    /\ op' = "start"
    /\ UNCHANGED loopVars
    /\ UNCHANGED <<demo, balls, worldSize, canvas, gravity, timeStep, cue, now, prev>>

\* ball1.simulate(this.timeStep, this.gravity) / ball1.update(1 / 60)
SimIntegrate ==
    /\ pc = "integrate"
    /\ balls' = [balls EXCEPT ![i] = IF demo = "ch03"
                                     THEN BallSimulate(@, timeStep, gravity)
                                     ELSE BallUpdate(@, timeStep)]
    /\ j' = i + 1
    /\ pc' = AfterIntegrate(i, Len(balls))
    /\ done' = Append(done, Ev("integrate", i, 0))
    /\ op' = "integrate"
    /\ UNCHANGED loopVars
    /\ UNCHANGED <<demo, worldSize, canvas, gravity, timeStep, i, ticks, cue, now, prev>>

\* this.handleBallsCollision(ball1, ball2, restitution)
SimPair ==
    /\ pc = "pair"
    /\ LET r == HandleBallsCollision(balls[i], balls[j], Restitution(demo))
       IN  balls' = [balls EXCEPT ![i] = r[1], ![j] = r[2]]
    /\ j' = j + 1
    /\ pc' = AfterPair(j, Len(balls))
    /\ done' = Append(done, Ev("pair", i, j))
    /\ op' = "pair"
    /\ UNCHANGED loopVars
    /\ UNCHANGED <<demo, worldSize, canvas, gravity, timeStep, i, ticks, cue, now, prev>>

\* this.handleWallsCollision(ball1, worldSize) / this.handleWallCollision(ball1)
SimWall ==
    /\ pc = "wall"
    /\ balls' = [balls EXCEPT ![i] = IF demo = "ch03"
                                     THEN HandleWallsCollision(@, worldSize)
                                     ELSE RendererHandleWallCollision(@, canvas)]
    /\ i' = i + 1
    /\ pc' = AfterWall(i, Len(balls))
    /\ done' = Append(done, Ev("wall", i, 0))
    /\ op' = "wall"
    /\ UNCHANGED loopVars
    /\ UNCHANGED <<demo, worldSize, canvas, gravity, timeStep, j, ticks, cue, now, prev>>

\* Position and velocity of the balls a scene may start with: two that
\* overlap, one apart from them, one across the left wall.
SimStarts(dm) ==
    IF dm = "ch03"
    THEN {<<Vec(Dec(5, 10), Dec(5, 10)), Vec(Num(1), Zero)>>,
          <<Vec(Dec(6, 10), Dec(5, 10)), Vec(Num(-1), Dec(1, 2))>>,
          <<Vec(Num(1), Dec(15, 10)), Vec(Zero, Num(-1))>>,
          <<Vec(Dec(5, 100), Dec(5, 10)), Vec(Num(-1), Zero)>>}
    ELSE {<<Vec(Num(1), Num(1)), Vec(Num(1), Zero)>>,
          <<Vec(Dec(15, 10), Num(1)), Vec(Num(-1), Dec(1, 2))>>,
          <<Vec(Num(5), Num(5)), Vec(Zero, Num(-1))>>,
          <<Vec(Dec(3, 10), Num(1)), Vec(Num(-1), Zero)>>}

\* Scene.setupBalls (radius in 0.05 .. 0.15) and addBall (radius 0.5, no gravity)
SimBalls(dm) ==
    IF dm = "ch03"
    THEN {Ball(Dec(1, 10), DiscMass(Dec(1, 10)), st[1], st[2]) : st \in SimStarts(dm)}
    ELSE {Ball3(st[1], st[2], Dec(1, 2), Vec(Zero, Zero)) : st \in SimStarts(dm)}

SimInit ==
    /\ demo \in {"ch03", "index3"}
    /\ balls \in [1..NumBalls -> SimBalls(demo)]
    /\ canvas = [width |-> 600, height |-> 600]
    /\ worldSize = SimSize(canvas, 2)
    /\ gravity = Vec(Zero, Zero)
    /\ timeStep = FrameStep
    /\ pc = "idle" /\ i = 1 /\ j = 1 /\ ticks = 0 /\ done = << >>
    /\ cue = NoCue /\ now = 0 /\ op = "init" /\ prev = << >>
    /\ LoopStarted

SimNext == SimStart \/ SimIntegrate \/ SimPair \/ SimWall

SpecSim == SimInit /\ [][SimNext]_vars

\* The steps of body a in a tick over n bodies: integrate, its pairs, its walls.
BodySteps(a, n) ==
    <<Ev("integrate", a, 0)>>
        \o [k \in 1..(n - a) |-> Ev("pair", a, a + k)]
        \o <<Ev("wall", a, 0)>>

RECURSIVE TickOrderFrom(_, _)
TickOrderFrom(a, n) == IF a > n THEN << >> ELSE BodySteps(a, n) \o TickOrderFrom(a + 1, n)

\* The steps of a whole tick over n bodies, body by body.
TickOrder(n) == TickOrderFrom(1, n)

Before(ev, k) == \E m \in 1..(k - 1) : done[m] = ev

\* C1 (as stated): in a tick, every body is integrated before any pair is
\* resolved, and every unordered pair is resolved before any body's walls.
C1_PhasesOrdered ==
    \A k \in DOMAIN done :
        /\ done[k].kind = "pair" =>
               \A b \in 1..Len(balls) : Before(Ev("integrate", b, 0), k)
        /\ done[k].kind = "wall" =>
               \A a \in 1..Len(balls) : \A b \in (a + 1)..Len(balls) :
                   Before(Ev("pair", a, b), k)

\* C1 (amended): a tick goes body by body.  For i ascending: body i is
\* integrated, then the pairs (i, j), j > i ascending, are resolved, then the
\* walls of body i; so pair (i, j) is resolved after body i and before body j
\* is integrated in that tick, and the walls of body i before any pair of a
\* later body.
C1_BodyByBody ==
    /\ Len(done) <= Len(TickOrder(Len(balls)))
    /\ done = SubSeq(TickOrder(Len(balls)), 1, Len(done))
    /\ \A k \in DOMAIN done :
           done[k].kind = "pair" =>
               /\ Before(Ev("integrate", done[k].a, 0), k)
               /\ ~Before(Ev("integrate", done[k].b, 0), k)
    /\ (pc = "idle" /\ ticks > 0) => done = TickOrder(Len(balls))

\* A whole tick over at least two bodies has run.
C1_Witness ==
    /\ pc = "idle" /\ ticks > 0 /\ Len(balls) >= 2
    /\ \E k \in DOMAIN done : done[k].kind = "pair"

-----------------------------------------------------------------------------
(* Cue and Game (ch-03-practice/index.js) *)

MIN_POWER == 10
MAX_POWER == 100
CHARGE_TIME == 2000
MIN_SHIFT == 0
MAX_SHIFT == 30
K == 3

RECURSIVE ExpSeries(_, _, _, _)
\* 1 + y + y^2/2! + ... from term number k on (term is y^(k-1)/(k-1)!), 20 terms.
ExpSeries(y, k, term, sum) ==
    IF k > 20 THEN sum
    ELSE ExpSeries(y, k + 1, Div(Mul(term, y), Num(k)),
                   Add(sum, Div(Mul(term, y), Num(k))))

\* Math.exp(a): the power series for a >= 0, its reciprocal for a < 0.
Exp(a) ==
    IF a.m >= 0 THEN ExpSeries(a, 1, Num(1), Num(1))
                ELSE Div(Num(1), ExpSeries(Neg(a), 1, Num(1), Num(1)))

\* Math.atan of z in [0, 1], to about 0.1 degree:
\* z * PI/4 + z * (1 - z) * (0.2447 + 0.0663 * z).
AtanUnit(z) ==
    Add(Mul(z, Div(Pi, Num(4))),
        Mul(Mul(z, Sub(Num(1), z)),
            Add(Dec(2447, 10000), Mul(Dec(663, 10000), z))))

\* Math.atan2(y, x) in radians, in [-PI, PI]; atan2(0, 0) = 0.
Atan2(y, x) ==
    LET ax == [x EXCEPT !.m = Abs(x.m)]
        ay == [y EXCEPT !.m = Abs(y.m)]
        base == IF ax.m = 0 /\ ay.m = 0 THEN Zero
                ELSE IF Le(ay, ax) THEN AtanUnit(Div(ay, ax))
                ELSE Sub(Div(Pi, Num(2)), AtanUnit(Div(ax, ay)))
        half == IF x.m >= 0 THEN base ELSE Sub(Pi, base)
    IN  IF y.m < 0 THEN Neg(half) ELSE half

\* this.angle = undefined, and a defined angle in degrees
Undefined == [def |-> FALSE, deg |-> Zero]
Degrees(a) == [def |-> TRUE, deg |-> a]

\* new Cue()
NewCue ==
    [power |-> Zero, direction |-> Vec(Zero, Zero), angle |-> Undefined,
     isCharging |-> FALSE, startChargeTime |-> 0, shift |-> Zero]

\* Cue.getCurveValue(maxValue, minValue, x)
GetCurveValue(maxValue, minValue, x) ==
    Sub(maxValue, Mul(Sub(maxValue, minValue), Exp(Mul(Neg(Num(K)), x))))

\* Cue.startCharge() at Date.now() = t
CueStartCharge(c, t) == [c EXCEPT !.isCharging = TRUE, !.startChargeTime = t]

\* updateCharge() without Math.min: the normalized time grows past 1.
CueUpdateChargeUncapped(c, t) ==
    IF ~c.isCharging THEN c
    ELSE LET elapsedTime == t - c.startChargeTime
             normalizedTime == Div(Num(elapsedTime), Num(CHARGE_TIME))
         IN  [c EXCEPT !.power = GetCurveValue(Num(MAX_POWER), Num(MIN_POWER), normalizedTime),
                       !.shift = GetCurveValue(Num(MAX_SHIFT), Num(MIN_SHIFT), normalizedTime)]

\* Cue.updateCharge() at Date.now() = t
CueUpdateCharge(c, t) ==
    IF ~c.isCharging THEN c
    ELSE LET elapsedTime == t - c.startChargeTime
             normalizedTime == FMin(Div(Num(elapsedTime), Num(CHARGE_TIME)), Num(1))
         IN  [c EXCEPT !.power = GetCurveValue(Num(MAX_POWER), Num(MIN_POWER), normalizedTime),
                       !.shift = GetCurveValue(Num(MAX_SHIFT), Num(MIN_SHIFT), normalizedTime)]

\* Cue.reset()
CueReset(c) ==
    [c EXCEPT !.isCharging = FALSE, !.startChargeTime = 0, !.power = Zero,
              !.angle = Undefined]

\* The ball's velocity after Cue.release has hit it.
Struck(c, ball) ==
    LET stickMass == Mul(Mul(Mul(Pi, Dec(1, 2)), Dec(1, 2)), Num(2))
        stickVel == Div(c.power, Num(2))
        ballVelAfter == Div(Mul(stickMass, stickVel), ball.mass)
    IN  [ball EXCEPT !.vel = VAdd(ball.vel, c.direction, Neg(ballVelAfter))]

\* release(ball) without its guard.
CueReleaseUnguarded(c, ball) == <<CueReset(c), Struck(c, ball)>>

\* Cue.release(ball): the cue and the ball after the call
CueRelease(c, ball) ==
    IF ~c.isCharging THEN <<c, ball>>
    ELSE <<CueReset(c), Struck(c, ball)>>

\* Cue.calculateAngle(vector): (degrees + 360) % 360, degrees in [-180, 180]
CalculateAngle(v) ==
    LET degrees == Mul(Atan2(v.y, v.x), Div(Num(180), Pi))
        sum == Add(degrees, Num(360))
    IN  IF Ge(sum, Num(360)) THEN Sub(sum, Num(360)) ELSE sum

\* Cue.updateDirection(ballPos, mousePos)
CueUpdateDirection(c, ballPos, mousePos) ==
    LET dir == VNormalize(VSubtractVectors(mousePos, ballPos))
    IN  [c EXCEPT !.direction = dir, !.angle = Degrees(CalculateAngle(dir))]

\* Frames of Game.update that are followed.
MaxFrames == 2

\* Seconds the clock is followed for after the game is created.
MaxSeconds == 3

Keys == {"Space", "KeyA"}

\* Where the pointer may be: a place of the world, or on the ball's centre.
MousePositions == {Vec(Num(13), Num(14)), balls[1].pos}

\* What an operation of the game leaves in op: its name, the key it was given
\* and whether the cue was charging when it began.
GameOp(name, code) == [name |-> name, code |-> code, wasCharging |-> cue.isCharging]

\* A key-down that starts a charge whatever the cue is doing.
KeyDownStartsAlways(code, c) == code = "Space"

\* The condition of Game.handleKeyDown
KeyDownStarts(code, c) == code = "Space" /\ ~c.isCharging

\* Game.handleMouseMove(e)
HandleMouseMove ==
    /\ \E mousePos \in MousePositions :
           cue' = CueUpdateDirection(cue, balls[1].pos, mousePos)
    /\ op' = GameOp("mousemove", "")
    /\ UNCHANGED prev
    /\ UNCHANGED loopVars
    /\ UNCHANGED <<demo, balls, worldSize, canvas, gravity, timeStep, pc, i, j,
                   ticks, done, now>>

\* Game.handleKeyDown(e)
HandleKeyDown ==
    /\ \E code \in Keys :
           /\ cue' = IF KeyDownStarts(code, cue) THEN CueStartCharge(cue, now) ELSE cue
           /\ op' = GameOp("keydown", code)
    /\ UNCHANGED prev
    /\ UNCHANGED loopVars
    /\ UNCHANGED <<demo, balls, worldSize, canvas, gravity, timeStep, pc, i, j,
                   ticks, done, now>>

\* Game.handleKeyUp(e)
HandleKeyUp ==
    /\ \E code \in Keys :
           /\ LET r == IF code = "Space" THEN CueRelease(cue, balls[1])
                                         ELSE <<cue, balls[1]>>
              IN  cue' = r[1] /\ balls' = <<r[2]>>
           /\ op' = GameOp("keyup", code)
    /\ UNCHANGED prev
    /\ UNCHANGED loopVars
    /\ UNCHANGED <<demo, worldSize, canvas, gravity, timeStep, pc, i, j, ticks,
                   done, now>>

\* Game.update(): one animation frame
GameUpdate ==
    /\ ticks < MaxFrames
    /\ ticks' = ticks + 1
    /\ balls' = <<WorldHandleWallCollision(PhysicsObjectSimulate(balls[1], timeStep),
                                           worldSize)>>
    /\ cue' = CueUpdateCharge(cue, now)
    /\ op' = GameOp("update", "")
    /\ UNCHANGED prev
    /\ UNCHANGED loopVars
    /\ UNCHANGED <<demo, worldSize, canvas, gravity, timeStep, pc, i, j, done, now>>

\* Cue.startCharge() called on the cue directly, not through the key handler.
StartChargeCall ==
    /\ cue' = CueStartCharge(cue, now)
    /\ op' = GameOp("startCharge", "")
    /\ UNCHANGED prev
    /\ UNCHANGED loopVars
    /\ UNCHANGED <<demo, balls, worldSize, canvas, gravity, timeStep, pc, i, j,
                   ticks, done, now>>

\* Time passes between two events: Date.now() grows.
ClockAdvance ==
    /\ now + 1000 <= 1000 + 1000 * MaxSeconds
    /\ now' = now + 1000
    /\ op' = GameOp("clock", "")
    /\ UNCHANGED prev
    /\ UNCHANGED loopVars
    /\ UNCHANGED <<demo, balls, worldSize, canvas, gravity, timeStep, pc, i, j,
                   ticks, done, cue>>

\* new Game(canvas): World, initBall (radius 0.5, at rest), new Cue()
GameInit ==
    /\ demo = "practice"
    /\ balls = <<Ball(Dec(1, 2), DiscMass(Dec(1, 2)), Vec(Num(10), Num(10)),
                      Vec(Zero, Zero))>>
    /\ canvas = [width |-> 900, height |-> 600]
    /\ worldSize = SimSize(canvas, 20)
    /\ gravity = Vec(Zero, Zero)
    /\ timeStep = FrameStep
    /\ pc = "idle" /\ i = 1 /\ j = 1 /\ ticks = 0 /\ done = << >>
    /\ cue = NewCue
    /\ now = 1000
    /\ op = [name |-> "init", code |-> "", wasCharging |-> FALSE]
    /\ prev = << >>
    /\ LoopStarted

GameNext ==
    \/ HandleMouseMove
    \/ HandleKeyDown
    \/ HandleKeyUp
    \/ GameUpdate
    \/ StartChargeCall
    \/ ClockAdvance

SpecGame == GameInit /\ [][GameNext]_vars

\* C2: release while the cue is idle changes nothing: not the ball, and no
\* field of the cue.
C2_ReleaseIdleNoOp ==
    [][(op'.name = "keyup" /\ op'.code = "Space" /\ ~cue.isCharging)
           => (cue' = cue /\ balls' = balls)]_vars

\* A release arrived at an idle cue that had aimed and had charged before.
C2_Witness ==
    /\ op.name = "keyup" /\ op.code = "Space" /\ ~op.wasCharging
    /\ cue.angle.def
    /\ cue.shift.m > 0

\* C3 (as stated): Cue.startCharge() on a charging cue leaves the recorded
\* start timestamp as it was.
C3_StartChargeIgnored ==
    [][(op'.name = "startCharge" /\ cue.isCharging)
           => cue'.startChargeTime = cue.startChargeTime]_vars

\* C3 (amended): the start signal, a key-down handled by Game.handleKeyDown, is
\* ignored while the cue is charging: the cue, its start timestamp included,
\* stays as it was.
C3_KeyDownIgnored ==
    [][(op'.name = "keydown" /\ cue.isCharging) => cue' = cue]_vars

\* Space went down again during a charge that had been running for a while.
C3_Witness ==
    /\ op.name = "keydown" /\ op.code = "Space" /\ op.wasCharging
    /\ cue.isCharging
    /\ now > cue.startChargeTime

\* C4: after a release that found the cue charging, the cue is idle, and its
\* power, draw-back offset, start time and angle are cleared.
C4_ReleaseClears ==
    (op.name = "keyup" /\ op.code = "Space" /\ op.wasCharging) =>
        /\ ~cue.isCharging
        /\ cue.power = Zero
        /\ cue.shift = Zero
        /\ cue.startChargeTime = 0
        /\ ~cue.angle.def

\* C5 (as stated): what a tick of a charge samples is no less than what a tick
\* at any earlier time of that charge samples, and from 2000 ms on it is
\* exactly MAX_POWER and MAX_SHIFT.
C5_ChargeCurve ==
    (op.name = "update" /\ cue.isCharging) =>
        LET elapsed == now - cue.startChargeTime
        IN  /\ \A e \in {t \in 0..elapsed : t % 1000 = 0} :
                   LET earlier == CueUpdateCharge(cue, cue.startChargeTime + e)
                   IN  Le(earlier.power, cue.power) /\ Le(earlier.shift, cue.shift)
            /\ elapsed >= CHARGE_TIME =>
                   cue.power = Num(MAX_POWER) /\ cue.shift = Num(MAX_SHIFT)

\* C5 (amended): what a tick of a charge samples is no less than what a tick
\* at any earlier time of that charge samples, and from 2000 ms on the values
\* stay what they are at 2000 ms: max - (max - min) * e^-3, about 95.5 for the
\* power and 28.5 for the offset, below MAX_POWER and MAX_SHIFT.
C5_ChargeCurveLevelsOff ==
    (op.name = "update" /\ cue.isCharging) =>
        LET elapsed == now - cue.startChargeTime
            full == CueUpdateCharge(cue, cue.startChargeTime + CHARGE_TIME)
        IN  /\ \A e \in {t \in 0..elapsed : t % 1000 = 0} :
                   LET earlier == CueUpdateCharge(cue, cue.startChargeTime + e)
                   IN  Le(earlier.power, cue.power) /\ Le(earlier.shift, cue.shift)
            /\ elapsed >= CHARGE_TIME =>
                   /\ cue.power = full.power /\ cue.shift = full.shift
                   /\ Ge(cue.power, Num(95)) /\ Le(cue.power, Num(96))
                   /\ Ge(cue.shift, Num(28)) /\ Le(cue.shift, Num(29))

\* A tick sampled a charge that had been running for longer than 2000 ms.
C5_Witness ==
    /\ op.name = "update" /\ cue.isCharging
    /\ now - cue.startChargeTime > CHARGE_TIME
    /\ cue.power.m > 0

-----------------------------------------------------------------------------
(* One body, one frame: the integrator and the boundary resolver of each    *)
(* of the four demos, applied to a body near the walls                      *)

\* applyGravity before move, the other way round.
CoreIntegrateMoveFirst(ball, g, dt) == ApplyGravity(Move(ball, dt), g, dt)

\* Core.simulate of part_000: this.ball.applyGravity(...); this.ball.move(...)
CoreIntegrate(ball, g, dt) == Move(ApplyGravity(ball, g, dt), dt)

\* A frame's record: the body the frame started with and the body after
\* integration, which is what the boundary resolver was called with.
Frame(start, integrated) == [start |-> start, integrated |-> integrated]

\* ch-03/index.js, one ball: ball1.simulate(...); handleWallsCollision(ball1, ...)
Ch03Step ==
    /\ demo = "ch03"
    /\ ticks < MaxTicks
    /\ LET b == BallSimulate(balls[1], timeStep, gravity)
       IN  /\ prev' = Frame(balls[1], b)
           /\ balls' = <<HandleWallsCollision(b, worldSize)>>
    /\ ticks' = ticks + 1
    /\ op' = "step"
    /\ UNCHANGED loopVars
    /\ UNCHANGED <<demo, worldSize, canvas, gravity, timeStep, pc, i, j, done, cue, now>>

\* ch-03-practice/index3.js, one ball: ball.update(1 / 60); handleWallCollision(ball)
Index3Step ==
    /\ demo = "index3"
    /\ ticks < MaxTicks
    /\ LET b == BallUpdate(balls[1], timeStep)
       IN  /\ prev' = Frame(balls[1], b)
           /\ balls' = <<RendererHandleWallCollision(b, canvas)>>
    /\ ticks' = ticks + 1
    /\ op' = "step"
    /\ UNCHANGED loopVars
    /\ UNCHANGED <<demo, worldSize, canvas, gravity, timeStep, pc, i, j, done, cue, now>>

\* Game.update of ch-03-practice/index.js
PracticeStep ==
    /\ demo = "practice"
    /\ ticks < MaxTicks
    /\ LET b == PhysicsObjectSimulate(balls[1], timeStep)
       IN  /\ prev' = Frame(balls[1], b)
           /\ balls' = <<WorldHandleWallCollision(b, worldSize)>>
    /\ cue' = CueUpdateCharge(cue, now)
    /\ ticks' = ticks + 1
    /\ op' = "step"
    /\ UNCHANGED loopVars
    /\ UNCHANGED <<demo, worldSize, canvas, gravity, timeStep, pc, i, j, done, now>>

\* Core.simulate of part_000
Part000Step ==
    /\ demo = "part000"
    /\ ticks < MaxTicks
    /\ LET b == CoreIntegrate(balls[1], gravity, timeStep)
       IN  /\ prev' = Frame(balls[1], b)
           /\ balls' = <<CoreHandleCollision(b, worldSize)>>
    /\ ticks' = ticks + 1
    /\ op' = "step"
    /\ UNCHANGED loopVars
    /\ UNCHANGED <<demo, worldSize, canvas, gravity, timeStep, pc, i, j, done, cue, now>>

\* Where a body may be when a frame starts: next to the left / bottom wall,
\* in the middle, next to the right / top wall; and how fast it moves.
BodyXs(dm) ==
    CASE dm = "ch03"     -> {Dec(1, 10), Num(1), Dec(29, 10)}
      [] dm = "index3"   -> {Dec(1, 2), Num(20), Dec(89, 2)}
      [] dm = "practice" -> {Dec(1, 20), Num(15), Dec(599, 20)}
      [] dm = "part000"  -> {Dec(1, 5), Num(13), Dec(299, 10)}

BodyYs(dm) ==
    CASE dm = "ch03"     -> {Dec(1, 10), Num(1), Dec(19, 10)}
      [] dm = "index3"   -> {Dec(1, 2), Num(15), Dec(59, 2)}
      [] dm = "practice" -> {Dec(1, 20), Num(10), Dec(399, 20)}
      [] dm = "part000"  -> {Dec(1, 5), Num(10), Dec(199, 10)}

BodyVels(dm) ==
    CASE dm = "ch03"     -> {Vec(Num(-1), Dec(1, 2)), Vec(Num(1), Num(-1))}
      [] dm = "index3"   -> {Vec(Num(-12), Num(-16)), Vec(Num(12), Num(16))}
      [] dm = "practice" -> {Vec(Num(-6), Num(-6)), Vec(Num(6), Num(6))}
      [] dm = "part000"  -> {Vec(Num(10), Num(15)), Vec(Num(-10), Num(-15))}

\* The gravity of an index3 ball: (0, 0) from addBall, (0, -9.81) after one kickBall
BallGravities == {Vec(Zero, Zero), Vec(Zero, Dec(-981, 100))}

Bodies(dm) ==
    CASE dm = "ch03" ->
            {Ball(Dec(1, 10), DiscMass(Dec(1, 10)), Vec(x, y), v) :
                x \in BodyXs(dm), y \in BodyYs(dm), v \in BodyVels(dm)}
      [] dm = "index3" ->
            UNION {{Ball3(Vec(x, y), v, Dec(1, 2), g) :
                       x \in BodyXs(dm), y \in BodyYs(dm), v \in BodyVels(dm)} :
                   g \in BallGravities}
      [] dm = "practice" ->
            {Ball(Dec(1, 2), DiscMass(Dec(1, 2)), Vec(x, y), v) :
                x \in BodyXs(dm), y \in BodyYs(dm), v \in BodyVels(dm)}
      [] dm = "part000" ->
            {Ball(Dec(1, 5), Zero, Vec(x, y), v) :
                x \in BodyXs(dm), y \in BodyYs(dm), v \in BodyVels(dm)}

BodyInit ==
    /\ demo \in {"ch03", "index3", "practice", "part000"}
    /\ \E b \in Bodies(demo) : balls = <<b>>
    /\ canvas = [width |-> 900, height |-> 600]
    /\ worldSize = CASE demo = "ch03"     -> SimSize(canvas, 2)
                     [] demo = "index3"   -> World(demo, Zero, canvas)
                     [] demo = "practice" -> SimSize(canvas, 20)
                     [] demo = "part000"  -> SimSize(canvas, 20)
    /\ gravity = IF demo = "part000" THEN Vec(Zero, Num(-10)) ELSE Vec(Zero, Zero)
    /\ timeStep = FrameStep
    /\ cue = IF demo = "practice" THEN NewCue ELSE NoCue
    /\ pc = "idle" /\ i = 1 /\ j = 1 /\ ticks = 0 /\ done = << >>
    /\ now = 0 /\ op = "init" /\ prev = << >>
    /\ LoopStarted

BodyNext == Ch03Step \/ Index3Step \/ PracticeStep \/ Part000Step

SpecBody == BodyInit /\ [][BodyNext]_vars

\* The body the boundary resolver was called with, and the body it left.
Hit == prev.integrated
Left == balls[1]
Bounds == World(demo, worldSize, canvas)

\* The centre is one radius inside every wall.
DiscInside(ball, size) ==
    /\ Ge(ball.pos.x, ball.radius) /\ Le(ball.pos.x, Sub(size.x, ball.radius))
    /\ Ge(ball.pos.y, ball.radius) /\ Le(ball.pos.y, Sub(size.y, ball.radius))

\* A body whose edge is across a wall leaves the resolver one radius inside
\* that wall, with the velocity component negated and scaled by damping.
ClampedAtRadius(before, after, size, damping) ==
    /\ Lt(Sub(before.pos.x, before.radius), Zero) =>
           /\ after.pos.x = before.radius
           /\ after.vel.x = Mul(Neg(before.vel.x), damping)
    /\ Gt(Add(before.pos.x, before.radius), size.x) =>
           /\ after.pos.x = Sub(size.x, before.radius)
           /\ after.vel.x = Mul(Neg(before.vel.x), damping)
    /\ Lt(Sub(before.pos.y, before.radius), Zero) =>
           /\ after.pos.y = before.radius
           /\ after.vel.y = Mul(Neg(before.vel.y), damping)
    /\ Gt(Add(before.pos.y, before.radius), size.y) =>
           /\ after.pos.y = Sub(size.y, before.radius)
           /\ after.vel.y = Mul(Neg(before.vel.y), damping)

\* A body whose centre is across a wall leaves the resolver with its centre
\* on that wall and the velocity component negated; a body whose centre is
\* inside is left as it is, however far its edge is across.
ClampedAtCentre(before, after, size, ceiling) ==
    /\ IF Lt(before.pos.x, Zero)
       THEN after.pos.x = Zero /\ after.vel.x = Neg(before.vel.x)
       ELSE IF Gt(before.pos.x, size.x)
       THEN after.pos.x = size.x /\ after.vel.x = Neg(before.vel.x)
       ELSE after.pos.x = before.pos.x /\ after.vel.x = before.vel.x
    /\ IF Lt(before.pos.y, Zero)
       THEN after.pos.y = Zero /\ after.vel.y = Neg(before.vel.y)
       ELSE IF ceiling /\ Gt(before.pos.y, size.y)
       THEN after.pos.y = size.y /\ after.vel.y = Neg(before.vel.y)
       ELSE after.pos.y = before.pos.y /\ after.vel.y = before.vel.y

\* C6 (as stated): in every boundary resolver a body whose edge crosses a wall
\* is clamped with its centre exactly one radius inside that wall and the
\* velocity component negated (scaled by the restitution), so that after the
\* resolver the whole disc lies inside the world.
C6_EveryResolverInsetsByRadius ==
    op = "step" =>
        /\ ClampedAtRadius(Hit, Left, Bounds,
                           IF demo = "index3" THEN WallDamping ELSE Num(1))
        /\ DiscInside(Left, Bounds)

\* C6 (amended): the resolvers of ch-03/index.js and index3.js clamp the
\* centre one radius inside the wall the edge crossed and negate the velocity
\* component (times 0.9 in index3.js), and leave the whole disc inside the
\* world.  Those of ch-03-practice/index.js and part_000 test the centre, not
\* the edge: a centre across a wall is put on the wall (x = 0, x = width,
\* y = 0, and y = height in index.js only) with the component negated, and
\* the centre ends in 0 <= x <= width, 0 <= y (<= height in index.js); up to
\* one radius of the disc stays outside, and part_000 has no ceiling.
C6_ResolverByResolver ==
    op = "step" =>
        CASE demo = "ch03" ->
                ClampedAtRadius(Hit, Left, Bounds, Num(1)) /\ DiscInside(Left, Bounds)
          [] demo = "index3" ->
                ClampedAtRadius(Hit, Left, Bounds, WallDamping) /\ DiscInside(Left, Bounds)
          [] demo = "practice" ->
                /\ ClampedAtCentre(Hit, Left, Bounds, TRUE)
                /\ Ge(Left.pos.x, Zero) /\ Le(Left.pos.x, Bounds.x)
                /\ Ge(Left.pos.y, Zero) /\ Le(Left.pos.y, Bounds.y)
          [] demo = "part000" ->
                /\ ClampedAtCentre(Hit, Left, Bounds, FALSE)
                /\ Ge(Left.pos.x, Zero) /\ Le(Left.pos.x, Bounds.x)
                /\ Ge(Left.pos.y, Zero)

\* A body of ch-03-practice/index.js whose centre went across the left wall
\* and was put on the wall, half of the disc outside the world.
C6_Witness ==
    /\ op = "step"
    /\ demo = "practice"
    /\ Lt(Hit.pos.x, Zero)
    /\ Left.pos.x = Zero
    /\ Left.vel.x = Neg(Hit.vel.x)
    /\ Left.vel.x.m # 0
    /\ ~DiscInside(Left, Bounds)

\* C10: one integration step first sets velocity' = velocity + gravity * dt
\* and then position' = position + velocity' * dt, in every integrator that
\* applies gravity (Ball.simulate, Ball.update, Core.simulate of part_000).
C10_VelocityThenPosition ==
    (op = "step" /\ demo \in {"ch03", "index3", "part000"}) =>
        LET g == IF demo = "index3" THEN prev.start.gravity ELSE gravity
            v0 == prev.start.vel
            v1 == prev.integrated.vel
            p0 == prev.start.pos
            p1 == prev.integrated.pos
        IN  /\ v1.x = Add(v0.x, Mul(g.x, timeStep))
            /\ v1.y = Add(v0.y, Mul(g.y, timeStep))
            /\ p1.x = Add(p0.x, Mul(v1.x, timeStep))
            /\ p1.y = Add(p0.y, Mul(v1.y, timeStep))

\* A step of part_000 under gravity whose position differs from the one the
\* pre-step velocity would have given.
C10_Witness ==
    /\ op = "step"
    /\ demo = "part000"
    /\ gravity.y.m # 0
    /\ prev.integrated.vel.y # prev.start.vel.y
    /\ prev.integrated.pos.y # Add(prev.start.pos.y, Mul(prev.start.vel.y, timeStep))

-----------------------------------------------------------------------------
(* Two bodies and the pair resolver: coincident, apart, in exact contact,   *)
(* overlapping head-on and obliquely, approaching and separating            *)

\* this.handleBallsCollision(ball1, ball2, restitution), as simulate() calls
\* it for the pair once per frame.
PairResolve ==
    /\ ticks < MaxTicks
    /\ prev' = balls
    /\ LET r == HandleBallsCollision(balls[1], balls[2], Restitution(demo))
       IN  balls' = <<r[1], r[2]>>
    /\ ticks' = ticks + 1
    /\ op' = "resolve"
    /\ UNCHANGED loopVars
    /\ UNCHANGED <<demo, worldSize, canvas, gravity, timeStep, pc, i, j, done, cue, now>>

\* Radii: Scene.setupBalls draws 0.05 .. 0.15; index3.js uses 0.5 and less.
PairRadii(dm) ==
    IF dm = "ch03" THEN {Dec(1, 8), Dec(1, 10)} ELSE {Dec(1, 2), Dec(1, 4)}

\* The first body: where it is and how it moves.
FirstPos(dm) == IF dm = "ch03" THEN Vec(Dec(1, 2), Dec(1, 2)) ELSE Vec(Num(5), Num(5))

FirstVels(dm) ==
    IF dm = "ch03"
    THEN {Vec(Num(1), Zero), Vec(Num(-1), Dec(1, 2))}
    ELSE {Vec(Num(4), Zero), Vec(Num(-3), Num(2))}

\* The second body: on the first, beside it at the distance of two large
\* radii, obliquely over it, far from it, above it.
SecondPoss(dm) ==
    IF dm = "ch03"
    THEN {Vec(Dec(1, 2), Dec(1, 2)), Vec(Dec(3, 4), Dec(1, 2)), Vec(Dec(3, 5), Dec(11, 20)),
          Vec(Dec(3, 2), Dec(1, 2)), Vec(Dec(1, 2), Dec(5, 8))}
    ELSE {Vec(Num(5), Num(5)), Vec(Num(6), Num(5)), Vec(Dec(27, 5), Dec(53, 10)),
          Vec(Num(8), Num(5)), Vec(Num(5), Dec(23, 4))}

SecondVels(dm) ==
    IF dm = "ch03"
    THEN {Vec(Num(-1), Zero), Vec(Dec(1, 2), Num(1))}
    ELSE {Vec(Num(-4), Zero), Vec(Num(2), Num(3))}

PairBall(dm, radius, pos, vel) ==
    IF dm = "ch03"
    THEN Ball(radius, DiscMass(radius), pos, vel)
    ELSE Ball3(pos, vel, radius, Vec(Zero, Zero))

PairInit ==
    /\ demo \in {"ch03", "index3"}
    /\ \E r1 \in PairRadii(demo), r2 \in PairRadii(demo),
          v1 \in FirstVels(demo), p2 \in SecondPoss(demo), v2 \in SecondVels(demo) :
            balls = <<PairBall(demo, r1, FirstPos(demo), v1), PairBall(demo, r2, p2, v2)>>
    /\ canvas = [width |-> 600, height |-> 600]
    /\ worldSize = SimSize(canvas, 2)
    /\ gravity = Vec(Zero, Zero)
    /\ timeStep = FrameStep
    /\ cue = NoCue
    /\ pc = "idle" /\ i = 1 /\ j = 1 /\ ticks = 0 /\ done = << >>
    /\ now = 0 /\ op = "init" /\ prev = << >>
    /\ LoopStarted

PairNext == PairResolve

SpecPair == PairInit /\ [][PairNext]_vars

\* The pair the resolver was called with: the vector between the centres,
\* their distance, the sum of the radii, the contact normal.
Between == VSubtractVectors(prev[2].pos, prev[1].pos)
Distance == VLength(Between)
RadiusSum == Add(prev[1].radius, prev[2].radius)
Normal == VScale(Between, Div(Num(1), Distance))
Tangent == Vec(Neg(Normal.y), Normal.x)

\* C7: pair resolve is a no-op outside contact: with d = 0 or
\* d > radiusA + radiusB both positions and both velocities are unchanged;
\* bodies that touch exactly (d = radiusA + radiusB) are treated as colliding
\* (their velocities change when their normal speeds differ).
C7_NoOpOutsideContact ==
    op = "resolve" =>
        /\ (Distance.m = 0 \/ Gt(Distance, RadiusSum)) => balls = prev
        /\ (Distance = RadiusSum /\ VDot(prev[1].vel, Normal) # VDot(prev[2].vel, Normal)) =>
               /\ balls[1].vel # prev[1].vel
               /\ balls[2].vel # prev[2].vel

\* Two moving bodies further apart than their radii went through resolve.
C7_Witness ==
    /\ op = "resolve"
    /\ Gt(Distance, RadiusSum)
    /\ prev[1].vel.x.m # 0
    /\ balls = prev

\* |a|, the larger of two numbers, and |a - b| <= eps
FAbs(a) == IF a.m < 0 THEN Neg(a) ELSE a
FMax(a, b) == IF Gt(a, b) THEN a ELSE b
Within(a, b, eps) == Le(FAbs(Sub(a, b)), eps)

\* Eight units in the last place of 1: the relative error allowed to a
\* result that took a handful of rounded operations.
Rounding == Norm(1, 3 - Precision)

\* The resolver was called with a pair in contact: 0 < d <= radiusA + radiusB.
Colliding == op = "resolve" /\ Distance.m # 0 /\ Le(Distance, RadiusSum)

\* The largest coordinate of the two centres, and the rounding error of a
\* position computed there.
Reach ==
    FMax(FMax(FAbs(prev[1].pos.x), FAbs(prev[1].pos.y)),
         FMax(FAbs(prev[2].pos.x), FAbs(prev[2].pos.y)))
Epsilon == Mul(Reach, Rounding)

Overlap == Sub(RadiusSum, Distance)
DistanceAfter == VLength(VSubtractVectors(balls[2].pos, balls[1].pos))
Shift(n) == VSubtractVectors(balls[n].pos, prev[n].pos)

\* C8 (as stated): for 0 < d <= radiusA + radiusB, after one pair resolve the
\* centre distance is at least radiusA + radiusB, so that the pair no longer
\* overlaps when resolve returns.
C8_OverlapResolved == Colliding => Ge(DistanceAfter, RadiusSum)

\* C8 (amended): for 0 < d <= radiusA + radiusB, after one pair resolve the
\* centre distance is at least radiusA + radiusB - epsilon, epsilon a few
\* units in the last place of the coordinates; each body has moved by half
\* the overlap (to within epsilon), the first against the contact normal and
\* the second along it, whatever the masses.  The distance may come out
\* below radiusA + radiusB by rounding.
C8_OverlapResolvedUpToRounding ==
    Colliding =>
        /\ Ge(DistanceAfter, Sub(RadiusSum, Epsilon))
        /\ \A n \in 1..2 : Within(VLength(Shift(n)), Div(Overlap, Num(2)), Epsilon)
        /\ Le(VDot(Shift(1), Normal), Zero)
        /\ Ge(VDot(Shift(2), Normal), Zero)

\* Two overlapping bodies of different mass were moved apart, and the
\* distance came out short of the sum of the radii, by less than epsilon.
C8_Witness ==
    /\ Colliding
    /\ prev[1].mass # prev[2].mass
    /\ Gt(Overlap, Mul(Num(4), Epsilon))
    /\ balls[1].pos # prev[1].pos
    /\ balls[2].pos # prev[2].pos
    /\ Lt(DistanceAfter, RadiusSum)

\* Normal and tangential speed of a body, and the momentum of the pair along
\* the contact normal.
NormalSpeed(ball) == VDot(ball.vel, Normal)
TangentSpeed(ball) == VDot(ball.vel, Tangent)
Momentum(pair) ==
    Add(Mul(pair[1].mass, NormalSpeed(pair[1])), Mul(pair[2].mass, NormalSpeed(pair[2])))

\* The sizes the rounding errors of a speed and of a momentum scale with.
Speed == FMax(VLength(prev[1].vel), VLength(prev[2].vel))
MomentumScale == Mul(Add(prev[1].mass, prev[2].mass), Speed)

\* C9 (as stated): pair resolve preserves the momentum along the contact
\* normal, m1*v1 + m2*v2 = m1*newV1 + m2*newV2; with equal masses and
\* restitution 1 the normal speeds are exchanged; the tangential velocity
\* components are unchanged.
C9_MomentumExact ==
    Colliding =>
        /\ Momentum(balls) = Momentum(prev)
        /\ \A n \in 1..2 : TangentSpeed(balls[n]) = TangentSpeed(prev[n])
        /\ (prev[1].mass = prev[2].mass /\ Restitution(demo) = Num(1)) =>
               /\ NormalSpeed(balls[1]) = NormalSpeed(prev[2])
               /\ NormalSpeed(balls[2]) = NormalSpeed(prev[1])

\* C9 (amended): the same three equalities hold to within rounding (a few
\* units in the last place, relative to the pair's mass and speed), for
\* restitution 1 and for restitution 0.9; none of them is exact.
C9_MomentumUpToRounding ==
    Colliding =>
        /\ Within(Momentum(balls), Momentum(prev), Mul(MomentumScale, Rounding))
        /\ \A n \in 1..2 :
               Within(TangentSpeed(balls[n]), TangentSpeed(prev[n]), Mul(Speed, Rounding))
        /\ (prev[1].mass = prev[2].mass /\ Restitution(demo) = Num(1)) =>
               /\ Within(NormalSpeed(balls[1]), NormalSpeed(prev[2]), Mul(Speed, Rounding))
               /\ Within(NormalSpeed(balls[2]), NormalSpeed(prev[1]), Mul(Speed, Rounding))

\* An oblique collision of two bodies of different mass and different normal
\* speed, which changed both velocities.
C9_Witness ==
    /\ Colliding
    /\ prev[1].mass # prev[2].mass
    /\ NormalSpeed(prev[1]) # NormalSpeed(prev[2])
    /\ Normal.x.m # 0 /\ Normal.y.m # 0
    /\ balls[1].vel # prev[1].vel
    /\ balls[2].vel # prev[2].vel

-----------------------------------------------------------------------------
(* The animation loop of ch-03/index.js and part_000: update() reschedules  *)
(* itself with requestAnimationFrame, a key press calls togglePause()       *)

\* this.simulate() of a scene with one ball
LoopSimulate(dm, ball) ==
    IF dm = "ch03"
    THEN HandleWallsCollision(BallSimulate(ball, timeStep, gravity), worldSize)
    ELSE CoreHandleCollision(CoreIntegrate(ball, gravity, timeStep), worldSize)

\* What an operation of the loop started from.
LoopBefore == [isRunning |-> isRunning, ticks |-> ticks, pending |-> pending]

\* The browser starts a display frame: the callbacks requested so far are
\* the ones this frame runs; requests made while they run wait for the next.
FrameBegin ==
    /\ frame.left = 0
    /\ pending > 0
    /\ frame.n < MaxFrames
    /\ frame' = [n |-> frame.n + 1, left |-> pending, simulated |-> 0]
    /\ pending' = 0
    /\ op' = "frame"
    /\ prev' = LoopBefore
    /\ UNCHANGED <<demo, balls, worldSize, canvas, gravity, timeStep, pc, i, j, ticks,
                   done, cue, now, isRunning>>

\* Core.update as a frame callback:
\* if (!this.isRunning) return; this.simulate(); requestAnimationFrame(this.update)
UpdateCallback ==
    /\ frame.left > 0
    /\ IF isRunning
       THEN /\ balls' = <<LoopSimulate(demo, balls[1])>>
            /\ ticks' = ticks + 1
            /\ pending' = pending + 1
            /\ frame' = [frame EXCEPT !.left = @ - 1, !.simulated = @ + 1]
       ELSE /\ frame' = [frame EXCEPT !.left = @ - 1]
            /\ UNCHANGED <<balls, ticks, pending>>
    /\ op' = "callback"
    /\ prev' = LoopBefore
    /\ UNCHANGED <<demo, worldSize, canvas, gravity, timeStep, pc, i, j, done, cue, now,
                   isRunning>>

\* keydown: Core.togglePause, between frames.  Resuming calls update() at
\* once: simulate, and one more requestAnimationFrame.
TogglePause ==
    /\ frame.left = 0
    /\ ticks < MaxTicks
    /\ isRunning' = ~isRunning
    /\ IF isRunning'
       THEN /\ balls' = <<LoopSimulate(demo, balls[1])>>
            /\ ticks' = ticks + 1
            /\ pending' = pending + 1
       ELSE UNCHANGED <<balls, ticks, pending>>
    /\ op' = "keydown"
    /\ prev' = LoopBefore
    /\ UNCHANGED <<demo, worldSize, canvas, gravity, timeStep, pc, i, j, done, cue, now,
                   frame>>

\* The balls the loop may be moving when it is first looked at.
LoopBalls(dm) ==
    IF dm = "ch03"
    THEN Bodies(dm)
    ELSE {Ball(Dec(1, 5), Zero, Vec(Dec(1, 5), Dec(1, 5)), Vec(Num(10), Num(15)))}
             \cup Bodies(dm)

LoopInit ==
    /\ demo \in {"ch03", "part000"}
    /\ \E b \in LoopBalls(demo) : balls = <<b>>
    /\ canvas = [width |-> 900, height |-> 600]
    /\ worldSize = SimSize(canvas, IF demo = "ch03" THEN 2 ELSE 20)
    /\ gravity = IF demo = "part000" THEN Vec(Zero, Num(-10)) ELSE Vec(Zero, Zero)
    /\ timeStep = FrameStep
    /\ cue = NoCue
    /\ pc = "idle" /\ i = 1 /\ j = 1 /\ ticks = 0 /\ done = << >>
    /\ now = 0 /\ op = "init" /\ prev = << >>
    /\ LoopStarted

LoopNext == FrameBegin \/ UpdateCallback \/ TogglePause

SpecLoop == LoopInit /\ [][LoopNext]_vars

\* C11: pause / resume keeps a single animation loop: at most one update
\* callback is pending at any time, so simulate runs at most once per display
\* frame; and while isRunning is false no frame callback runs simulate.
C11_SingleLoop ==
    /\ pending + frame.left <= 1
    /\ frame.simulated <= 1
    /\ (op = "callback" /\ ~prev.isRunning) => ticks = prev.ticks

\* The part of C11 that the code keeps: a callback that finds the loop
\* paused neither simulates nor requests another frame.
PausedCallbackIdle ==
    (op = "callback" /\ ~prev.isRunning) => (ticks = prev.ticks /\ pending = prev.pending)

-----------------------------------------------------------------------------
(* The charge range of the cue (SpecGame) *)

\* C12: whenever the cue is charging its power lies in
\* [MIN_POWER, MAX_POWER] = [10, 100] and its draw-back offset in [0, 30];
\* consequently every release that is applied (cue charging) launches the
\* ball with a power of at least 10, also when it comes after startCharge
\* and before the first tick.
C12_ChargingInRange ==
    /\ [](cue.isCharging =>
              /\ Ge(cue.power, Num(MIN_POWER)) /\ Le(cue.power, Num(MAX_POWER))
              /\ Ge(cue.shift, Num(MIN_SHIFT)) /\ Le(cue.shift, Num(MAX_SHIFT)))
    /\ [][(op'.name = "keyup" /\ op'.code = "Space" /\ cue.isCharging) =>
              Ge(cue.power, Num(MIN_POWER))]_vars

\* What holds instead: the range is entered with the first update after
\* startCharge; before it the power is the 0 that reset() left.
ChargingInRangeOrZero ==
    cue.isCharging =>
        \/ cue.power = Zero
        \/ /\ Ge(cue.power, Num(MIN_POWER)) /\ Le(cue.power, Num(MAX_POWER))
           /\ Ge(cue.shift, Num(MIN_SHIFT)) /\ Le(cue.shift, Num(MAX_SHIFT))

-----------------------------------------------------------------------------
(* The normal speeds the pair resolver leaves (SpecPair) *)

\* The speed at which the second body leaves the first along the contact
\* normal: v2 - v1, negative when the bodies approach each other.
Separation(pair) == Sub(NormalSpeed(pair[2]), NormalSpeed(pair[1]))

\* The rounding error allowed to a difference of two normal speeds.
Slack == Mul(Num(4), Mul(Speed, Rounding))

\* C13: after pair resolve on an overlapping pair (0 < d <= radiusA +
\* radiusB) the two bodies are not approaching each other along the contact
\* normal: newV2 - newV1 >= 0 (here: to within rounding), whatever the
\* normal speeds before were, also for a pair that overlaps while it is
\* already moving apart.
C13_NotApproaching ==
    Colliding => Ge(Separation(balls), Neg(Slack))

\* What the resolver does instead: it reverses the relative normal speed and
\* scales it by the restitution, newV2 - newV1 = -restitution * (v2 - v1),
\* whether the pair was approaching or separating.
RelativeSpeedReversed ==
    Colliding =>
        Within(Separation(balls), Neg(Mul(Restitution(demo), Separation(prev))), Slack)
====
